---- MODULE Spec2Model ----
(***************************************************************************)
(* Finite-field arithmetic of src/chapter_1_finite_field.rs.               *)
(*                                                                         *)
(* A FieldElement is the pair (num, prime) of U256 values.  The operators  *)
(* below are the methods of the file, computed the way the code computes   *)
(* them: multiplication is the chunked repeated addition, exponentiation   *)
(* the chunked repeated multiplication, and every U256 `+`, `-` is the     *)
(* checked operator of primitive_types (it panics when the result leaves   *)
(* the integer width).  A panic is a value [panic |-> kind] that every     *)
(* caller propagates, as unwinding does.                                   *)
(*                                                                         *)
(* The integer width is scaled down: U256 becomes Width bits and u128      *)
(* (half of it) Width \div 2 bits; i32 becomes I32Bits bits.               *)
(***************************************************************************)
EXTENDS Integers, Sequences, FiniteSets, TLC

\* ------------------------------------------------------------------ bounds
Width == 4

I32Bits == 4

\* --------------------------------------------------------- integer widths
U256Max == 2 ^ Width - 1

U128Max == 2 ^ (Width \div 2) - 1

I32Min == -(2 ^ (I32Bits - 1))

I32Max == 2 ^ (I32Bits - 1) - 1

\* ----------------------------------------------------------------- values
None == [none |-> TRUE]

Panic(kind) == [panic |-> kind]

IsElem(v) == DOMAIN v = {"num", "prime"}

IsPanic(v) == DOMAIN v = {"panic"}

\* ------------------------------------------------------------ FieldElement
\* FieldElement::new
FieldElementNew(num, prime) ==
    IF num >= prime
    THEN Panic("RangeViolation")
    ELSE [num |-> num, prime |-> prime]

\* Add::add without the conditional subtraction of the prime
FieldAddNoReduce(self, other) ==
    IF self.prime # other.prime
    THEN Panic("FieldMismatch")
    ELSE IF self.num + other.num > U256Max
    THEN Panic("ArithmeticOverflow")
    ELSE [num |-> self.num + other.num, prime |-> self.prime]

\* Add::add
FieldAdd(self, other) ==
    IF self.prime # other.prime
    THEN Panic("FieldMismatch")
    ELSE IF self.num + other.num > U256Max
    THEN Panic("ArithmeticOverflow")
    ELSE IF self.num + other.num >= self.prime
    THEN [num |-> self.num + other.num - self.prime, prime |-> self.prime]
    ELSE [num |-> self.num + other.num, prime |-> self.prime]

\* Sub::sub
FieldSub(self, other) ==
    IF self.prime # other.prime
    THEN Panic("FieldMismatch")
    ELSE IF self.num < other.num
    THEN IF self.prime - self.num + other.num > U256Max
         THEN Panic("ArithmeticOverflow")
         ELSE FieldElementNew(self.prime - self.num + other.num, self.prime)
    ELSE FieldElementNew(self.num - other.num, self.prime)

\* `for _ in 0..n { ret = ret + self.clone(); }`
RECURSIVE AddTimes(_, _, _)
AddTimes(ret, self, n) ==
    IF n = 0 \/ IsPanic(ret)
    THEN ret
    ELSE AddTimes(FieldAdd(ret, self), self, n - 1)

\* the `loop` of Mul::mul
RECURSIVE MulLoop(_, _, _)
MulLoop(ret, self, counter) ==
    IF IsPanic(ret)
    THEN ret
    ELSE IF counter < U128Max
    THEN AddTimes(ret, self, counter)
    ELSE MulLoop(AddTimes(ret, self, U128Max), self, counter - U128Max)

\* number of `ret + self` the loop of Mul::mul performs for a counter
RECURSIVE MulAdditions(_)
MulAdditions(counter) ==
    IF counter < U128Max
    THEN counter
    ELSE U128Max + MulAdditions(counter - U128Max)

\* Mul::mul without the comparison of the primes
FieldMulNoCheck(self, other) ==
    MulLoop(FieldElementNew(0, self.prime), self, other.num)

\* Mul::mul
FieldMul(self, other) ==
    IF self.prime # other.prime
    THEN Panic("FieldMismatch")
    ELSE MulLoop(FieldElementNew(0, self.prime), self, other.num)

\* `for _ in 0..n { ret = ret * self.clone(); }`
RECURSIVE MulTimes(_, _, _)
MulTimes(ret, self, n) ==
    IF n = 0 \/ IsPanic(ret)
    THEN ret
    ELSE MulTimes(FieldMul(ret, self), self, n - 1)

\* the `loop` of Pow<U256>::pow
RECURSIVE PowLoop(_, _, _)
PowLoop(ret, self, counter) ==
    IF IsPanic(ret)
    THEN ret
    ELSE IF counter < U128Max
    THEN MulTimes(ret, self, counter)
    ELSE PowLoop(MulTimes(ret, self, U128Max), self, counter - U128Max)

\* Pow<U256>::pow
FieldPowU256(self, exponent) ==
    LET ret == FieldElementNew(1, self.prime)
    IN  IF IsPanic(ret)
        THEN ret
        ELSE IF self.prime < 1
        THEN Panic("ArithmeticOverflow")
        ELSE IF self.prime - 1 = 0
        THEN Panic("DivisionByZero")
        ELSE PowLoop(ret, self, exponent % (self.prime - 1))

\* Pow<i32>::pow
FieldPowI32(self, exponent) ==
    IF exponent < 0
    THEN IF -exponent > I32Max
         THEN Panic("ArithmeticOverflow")
         ELSE IF self.prime < 1 \/ self.prime - 1 < -exponent
         THEN Panic("ArithmeticOverflow")
         ELSE FieldPowU256(self, self.prime - 1 - (-exponent))
    ELSE FieldPowU256(self, exponent)

\* Div::div
FieldDiv(self, other) ==
    IF self.prime < 2
    THEN Panic("ArithmeticOverflow")
    ELSE LET inv == FieldPowU256(other, self.prime - 2)
         IN  IF IsPanic(inv) THEN inv ELSE FieldMul(self, inv)

\* ------------------------------------------------------------ the program
\* a, b   : the caller's two bindings (a FieldElement, or None when unbound
\*          or moved into a call)
\* op     : the last call, args its arguments, ret what it returned
VARIABLES a, b, op, args, ret

vars == <<a, b, op, args, ret>>

Init ==
    /\ a = None
    /\ b = None
    /\ op = "init"
    /\ args = <<>>
    /\ ret = None

Running == ~IsPanic(ret)

\* a panic unwinds the caller: its bindings are dropped
Returned(name, arguments, out) ==
    /\ op' = name
    /\ args' = arguments
    /\ ret' = out

\* let a = FieldElement::new(num, prime);  then  let b = ...
New ==
    /\ Running
    /\ op \in {"init", "new", "let"}
    /\ b = None
    /\ \E num \in 0..U256Max, prime \in 0..U256Max :
         LET out == FieldElementNew(num, prime)
         IN  /\ Returned("new", <<num, prime>>, out)
             /\ a' = IF IsPanic(out) THEN None ELSE IF a = None THEN out ELSE a
             /\ b' = IF IsPanic(out) \/ a = None THEN None ELSE out

Binary(name, out) ==
    /\ Running
    /\ IsElem(a)
    /\ IsElem(b)
    /\ Returned(name, <<a, b>>, out)
    /\ a' = None
    /\ b' = None

\* a + b
Add == Binary("add", FieldAdd(a, b))

\* a - b
Sub == Binary("sub", FieldSub(a, b))

\* a * b
Mul == Binary("mul", FieldMul(a, b))

\* a / b
Div == Binary("div", FieldDiv(a, b))

\* a.pow(exponent) with a U256 exponent
PowU256 ==
    /\ Running
    /\ IsElem(a)
    /\ b = None
    /\ \E exponent \in 0..U256Max :
         Returned("powU256", <<a, exponent>>, FieldPowU256(a, exponent))
    /\ a' = None
    /\ b' = None

\* a.pow(exponent) with an i32 exponent
PowI32 ==
    /\ Running
    /\ IsElem(a)
    /\ b = None
    /\ \E exponent \in I32Min..I32Max :
         Returned("powI32", <<a, exponent>>, FieldPowI32(a, exponent))
    /\ a' = None
    /\ b' = None

\* let a = <the value the last operation returned>;
Let ==
    /\ op \notin {"init", "new", "let"}
    /\ IsElem(ret)
    /\ a' = ret
    /\ b' = None
    /\ Returned("let", <<>>, None)

Next ==
    \/ New
    \/ Add
    \/ Sub
    \/ Mul
    \/ Div
    \/ PowU256
    \/ PowI32
    \/ Let

Spec == Init /\ [][Next]_vars

\* ------------------------------------------------------------- properties
IsPrime(p) == p >= 2 /\ \A d \in 2..(p - 1) : p % d # 0

\* base^e mod p over the integers
RECURSIVE ModExp(_, _, _)
ModExp(base, e, p) == IF e = 0 THEN 1 % p ELSE (base * ModExp(base, e - 1, p)) % p

Elem(num, prime) == [num |-> num, prime |-> prime]

BinaryOps == {"add", "sub", "mul", "div"}

PowOps == {"powU256", "powI32"}

SamePrime == args[1].prime = args[2].prime

\* C1: sub(a, b) on elements of one field returns the element with residue
\* (a.num - b.num) mod p, in both branches, and does not fail.
C1_SubReturnsDifference ==
    (op = "sub" /\ SamePrime) =>
        ret = Elem((args[1].num + args[1].prime - args[2].num) % args[1].prime,
                   args[1].prime)

\* C2: div(a, b) with b.num = 0 in the same field fails and returns no
\* FieldElement.
C2_DivByZeroFails ==
    (op = "div" /\ SamePrime /\ args[2].num = 0) => IsPanic(ret)

\* C3: for nonzero a in a prime field and every n > 0 (also n > p - 1),
\* pow(a, -n) returns a value, equal to div(one, pow(a, n)), which is
\* a^((p-1) - (n mod (p-1))).
C3_NegativePowIsInverse ==
    (op = "powI32" /\ args[2] < 0 /\ IsPrime(args[1].prime) /\ args[1].num # 0) =>
        LET p == args[1].prime
            n == -args[2]
        IN  /\ IsElem(ret)
            /\ ret = Elem(ModExp(args[1].num, (p - 1) - (n % (p - 1)), p), p)
            /\ ret = FieldDiv(Elem(1, p), FieldPowU256(args[1], n))

\* C4: in a prime field, pow of the zero element to any positive exponent
\* (also a multiple of p - 1) returns the zero element.
C4_ZeroPowPositiveIsZero ==
    (op \in PowOps /\ IsPrime(args[1].prime) /\ args[1].num = 0 /\ args[2] > 0) =>
        ret = Elem(0, args[1].prime)

\* C5: pow of the zero element to exponent 0 or to a negative exponent
\* fails and returns no FieldElement.
C5_ZeroPowNonPositiveFails ==
    (op \in PowOps /\ args[1].num = 0 /\ args[2] <= 0) => IsPanic(ret)

\* C6: add(a, b) on elements of one field returns the element with residue
\* (a.num + b.num) mod p and does not fail, also when a.num + b.num leaves
\* the integer width.
C6_AddNeverOverflows ==
    (op = "add" /\ SamePrime) =>
        ret = Elem((args[1].num + args[2].num) % args[1].prime, args[1].prime)

\* C7: in a prime field, for nonzero b, div(a, b) returns a * b^(p-2) and
\* mul(div(a, b), b) equals a.
C7_DivIsMulInverse ==
    (op = "div" /\ SamePrime /\ IsPrime(args[1].prime) /\ args[2].num # 0) =>
        LET p == args[1].prime
        IN  /\ ret = Elem((args[1].num * ModExp(args[2].num, p - 2, p)) % p, p)
            /\ FieldMul(ret, args[2]) = args[1]

\* C8: mul(a, b) on elements of one field returns the element with residue
\* (a.num * b.num) mod p, and the chunked loop performs exactly b.num
\* additions.
C8_MulIsProduct ==
    (op = "mul" /\ SamePrime) =>
        /\ ret = Elem((args[1].num * args[2].num) % args[1].prime, args[1].prime)
        /\ MulAdditions(args[2].num) = args[2].num

InRange(v) == 0 <= v.num /\ v.num < v.prime

\* C9: every FieldElement returned by new, add, sub, mul, div or pow has
\* 0 <= num < prime and carries the prime of its operands, the operands
\* being in range themselves; new(num, prime) with num >= prime fails.
C9_ResidueInRange ==
    /\ IsElem(a) => InRange(a)
    /\ IsElem(b) => InRange(b)
    /\ IsElem(ret) =>
        /\ InRange(ret)
        /\ op = "new" => ret = Elem(args[1], args[2])
        /\ op \in BinaryOps => (ret.prime = args[1].prime /\ ret.prime = args[2].prime)
        /\ op \in PowOps => ret.prime = args[1].prime
    /\ (op = "new" /\ args[1] >= args[2]) => IsPanic(ret)

\* an addition whose raw sum reached the prime returned a value
C9_Witness ==
    /\ op = "add"
    /\ IsElem(ret)
    /\ args[1].num + args[2].num >= args[1].prime

====
